---- MODULE Spec2Model ----
(***************************************************************************)
(* Model of src/app.py: the AyuRakshak health-helpdesk chatbot.            *)
(*                                                                         *)
(* A text is a sequence of words (strings); the Python string is the words *)
(* joined by single spaces.  A reply is a sequence of lines; the Python    *)
(* string is the lines joined by "\n".  TLA+ strings are ASCII, so the     *)
(* three non-ASCII keywords of the source are written as                   *)
(*    "dard"    for the Devanagari word for pain   (app.py:54, 94)         *)
(*    "bukhar"  for the Devanagari word for fever  (app.py:52, 97)         *)
(*    ":cry:"   for the crying-face emoji          (app.py:102)            *)
(* and the warning sign that opens DISCLAIMER is written "(!)".            *)
(***************************************************************************)
EXTENDS Integers, Sequences, FiniteSets, TLC

VARIABLES
    store,   \* mongo.db.messages: the documents in insertion order
    owner,   \* history: owner[i] is the request that inserted store[i]
    clock,   \* the process clock read by datetime.now(timezone.utc)
    rq,      \* per request (worker thread): its locals and its position
    calls    \* history: the calls made to translator.translate

vars == <<store, owner, clock, rq, calls>>

----------------------------------------------------------------------------
(* Bounds *)

MaxLen == 2        \* longest text, in words, in the pure-function checks
MaxOrigLen == 1    \* longest original-language text in the composer check
MaxClock == 2      \* the clock ticks at most up to this value

----------------------------------------------------------------------------
(* Constants of app.py *)

DISCLAIMER == "(!) Please consult a doctor before following this advice."

----------------------------------------------------------------------------
(* Strings: str.lower() and the substring test `kw in text` *)

\* word.lower(): the upper-case words of the vocabulary
LowerWord(w) ==
    CASE w = "PAIN"  -> "pain"
      [] w = "Fever" -> "fever"
      [] w = "HIGH"  -> "high"
      [] w = "SOS"   -> "sos"
      [] w = "Garlic" -> "garlic"
      [] OTHER -> w

\* text.lower()
Lower(text) == [i \in 1..Len(text) |-> LowerWord(text[i])]

\* The one-word keywords that occur inside a word as a substring.
\* Matching is case-sensitive, as Python's `in` is.
Inside(w) ==
    CASE w = "headache"     -> {"ache"}
      [] w = "painful"      -> {"pain"}
      [] w = "tuberculosis" -> {"sos"}
      [] w \in {"PAIN", "Fever", "HIGH", "SOS", "Garlic"} -> {}
      [] OTHER -> {w}

\* kw in text, for a keyword of one word or of two words ("chest pain")
Contains(text, kw) ==
    IF Len(kw) = 1
    THEN \E i \in 1..Len(text) : kw[1] \in Inside(text[i])
    ELSE \E i \in 1..(Len(text) - 1) :
            /\ text[i] = kw[1]
            /\ kw[2] \in Inside(text[i + 1])

\* any(w in txt for w in kws)
ContainsAny(text, kws) == \E kw \in kws : Contains(text, kw)

\* All texts of at most n words over a vocabulary
TextsOver(V, n) == UNION {[1..k -> V] : k \in 0..n}

----------------------------------------------------------------------------
(* analyze_symptoms, app.py:47-60 *)

SevereWords ==
    {<<"bleeding">>, <<"unconscious">>, <<"severe">>, <<"chest", "pain">>,
     <<"difficulty", "breathing">>}

ModerateWords == {<<"high">>, <<"104">>}

analyze_symptoms(text) ==
    LET txt == Lower(text)
        s1 == IF ContainsAny(txt, {<<"fever">>, <<"bukhar">>})
              THEN <<"fever">> ELSE <<>>
        s2 == IF ContainsAny(txt, {<<"pain">>, <<"dard">>, <<"ache">>})
              THEN s1 \o <<"pain">> ELSE s1
        v1 == IF ContainsAny(txt, SevereWords) THEN "severe" ELSE "mild"
        v2 == IF ContainsAny(txt, ModerateWords) THEN "moderate" ELSE v1
    IN  [symptoms |-> s2, severity |-> v2, notes |-> ""]

----------------------------------------------------------------------------
(* The reply composer, app.py:92-116.  A reply is the sequence of its      *)
(* pieces: the fixed lines, and the words spliced into a line.             *)

PainLines ==
    <<"I detected pain. Please call 104 (Govt. Health Helpline - India).",
      "If the pain is intense or sudden, visit the nearest hospital: https://www.google.com/maps/search/hospital+near+me">>

FeverLines == <<"For fever: Drink fluids, rest, monitor temperature.">>

GarlicLines ==
    <<"(!) Garlic does NOT cure TB. Refer to official guidance (WHO) for treatment.",
      "https://www.who.int">>

SosLines ==
    <<"Emergency detected! Call 104 (Govt. Health Helpline - India) or nearest hospital immediately.">>

\* f"I detected symptoms: {', '.join(analysis['symptoms'])}."
SymptomsLine(symptoms) == <<"I detected symptoms:">> \o symptoms \o <<".">>

SevereLine ==
    "Severity appears high - seek emergency care now: https://www.google.com/maps/search/hospital+near+me"

HomeCareLine ==
    "Try home care measures (rest, fluids). Monitor and seek care if symptoms worsen."

\* f"You said: {user_msg_en}" and the prompt that follows it
EchoLines(user_msg_en) ==
    <<"You said:">> \o user_msg_en
        \o <<"Tell me more about your symptoms or type 'symptom checker' to begin.">>

\* Faulty variant: the fever rule is tried before the pain rule
ComposeLines_FeverFirst(user_msg, user_msg_en, analysis) ==
    IF Contains(Lower(user_msg_en), <<"fever">>)
       \/ Contains(user_msg, <<"bukhar">>)
    THEN FeverLines
    ELSE IF Contains(Lower(user_msg_en), <<"pain">>)
            \/ Contains(user_msg, <<"dard">>)
    THEN PainLines
    ELSE IF Contains(Lower(user_msg_en), <<"garlic">>)
    THEN GarlicLines
    ELSE IF Contains(Lower(user_msg_en), <<"sos">>)
            \/ Contains(user_msg, <<":cry:">>)
    THEN SosLines
    ELSE IF analysis.symptoms # <<>>
    THEN SymptomsLine(analysis.symptoms)
            \o (IF analysis.severity = "severe"
                THEN <<SevereLine>> ELSE <<HomeCareLine>>)
    ELSE EchoLines(user_msg_en)

\* reply_lines, app.py:92-113
ComposeLines(user_msg, user_msg_en, analysis) ==
    IF Contains(Lower(user_msg_en), <<"pain">>) \/ Contains(user_msg, <<"dard">>)
    THEN PainLines
    ELSE IF Contains(Lower(user_msg_en), <<"fever">>)
            \/ Contains(user_msg, <<"bukhar">>)
    THEN FeverLines
    ELSE IF Contains(Lower(user_msg_en), <<"garlic">>)
    THEN GarlicLines
    ELSE IF Contains(Lower(user_msg_en), <<"sos">>)
            \/ Contains(user_msg, <<":cry:">>)
    THEN SosLines
    ELSE IF analysis.symptoms # <<>>
    THEN SymptomsLine(analysis.symptoms)
            \o (IF analysis.severity = "severe"
                THEN <<SevereLine>> ELSE <<HomeCareLine>>)
    ELSE EchoLines(user_msg_en)

\* Faulty variant: the disclaimer is not appended
ComposeReply_NoDisclaimer(user_msg, user_msg_en, analysis) ==
    ComposeLines(user_msg, user_msg_en, analysis)

\* reply_text = "\n".join(reply_lines + [DISCLAIMER]), app.py:116
ComposeReply(user_msg, user_msg_en, analysis) ==
    ComposeLines(user_msg, user_msg_en, analysis) \o <<DISCLAIMER>>

----------------------------------------------------------------------------
(* The external collaborators *)

\* What translator.translate may do: raise, or return any text.
Failure == [ok |-> FALSE, text |-> <<>>]

Success(t) == [ok |-> TRUE, text |-> t]

\* Faulty variant: fail-closed, a failed translation yields the empty text
translate_text_FailClosed(text, target_lang, resp) ==
    IF resp.ok THEN resp.text ELSE <<>>

\* translate_text, app.py:39-45: resp is what translator.translate did
translate_text(text, target_lang, resp) ==
    IF resp.ok THEN resp.text ELSE text

\* What langdetect's detect may do: raise, or return a language code.
DetectFailure == [ok |-> FALSE, text |-> ""]

\* detect_language, app.py:32-37: resp is what langdetect's detect did
detect_language(text, resp) ==
    IF resp.ok THEN resp.text ELSE "en"

\* The language codes langdetect returns in the model
DetectedLangs == {"en", "hi"}

\* The lang_code values a request carries in the model
LangCodes == {"en", "hi"}

\* The messages a send_message request carries in the model
Messages == {<<"hello">>, <<"bukhar">>}

\* The English texts the translator returns for a message in the model
EnglishOutputs == {<<"fever">>}

\* The text the translator returns for a reply in the model
ForeignOutputs == {<<"<the reply in the user's language>">>}

\* request.files.get("file"): None, a part with an empty filename (falsy),
\* or a file
NoFile == [present |-> FALSE, filename |-> ""]

Files ==
    {NoFile, [present |-> TRUE, filename |-> ""],
     [present |-> TRUE, filename |-> "rx.png"]}

\* Faulty variant: only a missing part counts as no file
Falsy_NoneOnly(f) == ~f.present

\* `not f`: a werkzeug FileStorage is falsy when its filename is empty
Falsy(f) == ~f.present \/ f.filename = ""

\* The requests in flight: two threads of the server, one request each
Workers == {1, 2}

----------------------------------------------------------------------------
(* State *)

NoAnalysis == [symptoms |-> <<>>, severity |-> "mild", notes |-> ""]

Idle ==
    [kind |-> "none", pc |-> "idle", user_msg |-> <<>>, lang_code |-> "en",
     f |-> NoFile, ts |-> 0, detected |-> "en", user_msg_en |-> <<>>,
     analysis |-> NoAnalysis, reply_text |-> <<>>, final_reply |-> <<>>,
     status |-> 0, reply |-> <<>>,
     in_failed |-> FALSE, out_failed |-> FALSE, store_failed |-> FALSE]

Init ==
    /\ store = <<>>
    /\ owner = <<>>
    /\ clock = 1
    /\ rq = [w \in Workers |-> Idle]
    /\ calls = {}

\* The document of an insert_one call
Doc(sender, lang_code, message, timestamp) ==
    [sender |-> sender, lang_code |-> lang_code, message |-> message,
     timestamp |-> timestamp]

\* Faulty variant: the document is inserted twice
Insert_Twice(w, doc) ==
    /\ store' = Append(Append(store, doc), doc)
    /\ owner' = Append(Append(owner, w), w)

\* mongo.db.messages.insert_one(doc) returning normally
Insert(w, doc) ==
    /\ store' = Append(store, doc)
    /\ owner' = Append(owner, w)

\* A call of translator.translate by request w
Called(w, step, target, resp) ==
    calls' = calls \cup {[rid |-> w, step |-> step, target |-> target,
                          ok |-> resp.ok]}

\* The process clock advances
Tick ==
    /\ clock < MaxClock
    /\ clock' = clock + 1
    /\ UNCHANGED <<store, owner, rq, calls>>

----------------------------------------------------------------------------
(* send_message, app.py:72-129 *)

\* app.py:74-76: the request's JSON body
ReceiveSendMessage(w) ==
    /\ rq[w].pc = "idle"
    /\ \E m \in Messages, l \in LangCodes :
          rq' = [rq EXCEPT ![w] = [@ EXCEPT !.kind = "send_message",
                    !.pc = "stamp_inbound", !.user_msg = m, !.lang_code = l]]
    /\ UNCHANGED <<store, owner, clock, calls>>

\* app.py:79-84: the document is built, reading the clock, before insert_one
\* is called
StampInbound(w) ==
    /\ rq[w].kind = "send_message" /\ rq[w].pc = "stamp_inbound"
    /\ rq' = [rq EXCEPT ![w] = [@ EXCEPT !.ts = clock, !.pc = "log_inbound"]]
    /\ UNCHANGED <<store, owner, clock, calls>>

\* app.py:79: insert_one returns, or raises and the request ends in a 500
LogInbound(w) ==
    /\ rq[w].kind = "send_message" /\ rq[w].pc = "log_inbound"
    /\ \/ /\ Insert(w, Doc("user", rq[w].lang_code, rq[w].user_msg, rq[w].ts))
          /\ rq' = [rq EXCEPT ![w] = [@ EXCEPT !.pc = "detect_lang", !.ts = 0]]
       \/ /\ rq' = [rq EXCEPT ![w] = [@ EXCEPT !.pc = "aborted",
                       !.ts = 0, !.status = 500, !.store_failed = TRUE]]
          /\ UNCHANGED <<store, owner>>
    /\ UNCHANGED <<clock, calls>>

\* app.py:87
DetectLang(w) ==
    /\ rq[w].kind = "send_message" /\ rq[w].pc = "detect_lang"
    /\ \E resp \in {DetectFailure} \cup {Success(l) : l \in DetectedLangs} :
          rq' = [rq EXCEPT ![w] = [@ EXCEPT
                    !.detected = detect_language(rq[w].user_msg, resp),
                    !.pc = "translate_to_en"]]
    /\ UNCHANGED <<store, owner, clock, calls>>

\* app.py:88
TranslateToEn(w) ==
    /\ rq[w].kind = "send_message" /\ rq[w].pc = "translate_to_en"
    /\ IF rq[w].detected # "en"
       THEN \E resp \in {Failure} \cup {Success(t) : t \in EnglishOutputs} :
               /\ rq' = [rq EXCEPT ![w] = [@ EXCEPT
                         !.user_msg_en =
                             translate_text(rq[w].user_msg, "en", resp),
                         !.in_failed = ~resp.ok,
                         !.pc = "analyze"]]
               /\ Called(w, "inbound", "en", resp)
       ELSE /\ rq' = [rq EXCEPT ![w] = [@ EXCEPT
                         !.user_msg_en = rq[w].user_msg, !.pc = "analyze"]]
            /\ UNCHANGED calls
    /\ UNCHANGED <<store, owner, clock>>

\* app.py:91
Analyze(w) ==
    /\ rq[w].kind = "send_message" /\ rq[w].pc = "analyze"
    /\ rq' = [rq EXCEPT ![w] = [@ EXCEPT
                 !.analysis = analyze_symptoms(rq[w].user_msg_en),
                 !.pc = "compose"]]
    /\ UNCHANGED <<store, owner, clock, calls>>

\* app.py:92-116
Compose(w) ==
    /\ rq[w].kind = "send_message" /\ rq[w].pc = "compose"
    /\ rq' = [rq EXCEPT ![w] = [@ EXCEPT
                 !.reply_text = ComposeReply(rq[w].user_msg,
                                     rq[w].user_msg_en, rq[w].analysis),
                 !.pc = "translate_to_user"]]
    /\ UNCHANGED <<store, owner, clock, calls>>

\* Faulty variant: the reply is translated whatever the lang_code
TranslateToUser_Always(w) ==
    /\ rq[w].kind = "send_message" /\ rq[w].pc = "translate_to_user"
    /\ \E resp \in {Failure} \cup {Success(t) : t \in ForeignOutputs} :
          /\ rq' = [rq EXCEPT ![w] = [@ EXCEPT
                    !.final_reply = translate_text(rq[w].reply_text,
                                        rq[w].lang_code, resp),
                    !.out_failed = ~resp.ok,
                    !.pc = "stamp_outbound"]]
          /\ Called(w, "outbound", rq[w].lang_code, resp)
    /\ UNCHANGED <<store, owner, clock>>

\* app.py:119
TranslateToUser(w) ==
    /\ rq[w].kind = "send_message" /\ rq[w].pc = "translate_to_user"
    /\ IF rq[w].lang_code # "en"
       THEN \E resp \in {Failure} \cup {Success(t) : t \in ForeignOutputs} :
               /\ rq' = [rq EXCEPT ![w] = [@ EXCEPT
                         !.final_reply = translate_text(rq[w].reply_text,
                                             rq[w].lang_code, resp),
                         !.out_failed = ~resp.ok,
                         !.pc = "stamp_outbound"]]
               /\ Called(w, "outbound", rq[w].lang_code, resp)
       ELSE /\ rq' = [rq EXCEPT ![w] = [@ EXCEPT
                         !.final_reply = rq[w].reply_text,
                         !.pc = "stamp_outbound"]]
            /\ UNCHANGED calls
    /\ UNCHANGED <<store, owner, clock>>

\* Faulty variant: the bot document is built without a timestamp
StampOutbound_NoTimestamp(w) ==
    /\ rq[w].kind = "send_message" /\ rq[w].pc = "stamp_outbound"
    /\ rq' = [rq EXCEPT ![w] = [@ EXCEPT !.pc = "log_outbound"]]
    /\ UNCHANGED <<store, owner, clock, calls>>

\* app.py:122-127: the document is built, reading the clock
StampOutbound(w) ==
    /\ rq[w].kind = "send_message" /\ rq[w].pc = "stamp_outbound"
    /\ rq' = [rq EXCEPT ![w] = [@ EXCEPT !.ts = clock, !.pc = "log_outbound"]]
    /\ UNCHANGED <<store, owner, clock, calls>>

\* app.py:122-129: insert_one returns and the reply is sent with status 200,
\* or it raises and the request ends in a 500
LogOutbound(w) ==
    /\ rq[w].kind = "send_message" /\ rq[w].pc = "log_outbound"
    /\ \/ /\ Insert(w, Doc("bot", rq[w].lang_code, rq[w].final_reply, rq[w].ts))
          /\ rq' = [rq EXCEPT ![w] = [@ EXCEPT !.pc = "done",
                       !.ts = 0, !.status = 200, !.reply = rq[w].final_reply]]
       \/ /\ rq' = [rq EXCEPT ![w] = [@ EXCEPT !.pc = "aborted",
                       !.ts = 0, !.status = 500, !.store_failed = TRUE]]
          /\ UNCHANGED <<store, owner>>
    /\ UNCHANGED <<clock, calls>>

send_message(w) ==
    \/ ReceiveSendMessage(w)
    \/ StampInbound(w)
    \/ LogInbound(w)
    \/ DetectLang(w)
    \/ TranslateToEn(w)
    \/ Analyze(w)
    \/ Compose(w)
    \/ TranslateToUser(w)
    \/ StampOutbound(w)
    \/ LogOutbound(w)

----------------------------------------------------------------------------
(* upload_file, app.py:132-165 *)

\* app.py:134-137: the multipart form; without a file the reply is a 400
ReceiveUpload(w) ==
    /\ rq[w].pc = "idle"
    /\ \E f \in Files, l \in LangCodes :
          IF Falsy(f)
          THEN rq' = [rq EXCEPT ![w] = [@ EXCEPT !.kind = "upload_file",
                        !.f = f, !.lang_code = l, !.pc = "done",
                        !.status = 400,
                        !.reply = <<"No file received.", DISCLAIMER>>]]
          ELSE rq' = [rq EXCEPT ![w] = [@ EXCEPT !.kind = "upload_file",
                        !.f = f, !.lang_code = l, !.pc = "stamp_inbound"]]
    /\ UNCHANGED <<store, owner, clock, calls>>

\* app.py:139-145: the document is built, reading the clock
UploadStampInbound(w) ==
    /\ rq[w].kind = "upload_file" /\ rq[w].pc = "stamp_inbound"
    /\ rq' = [rq EXCEPT ![w] = [@ EXCEPT !.ts = clock, !.pc = "log_inbound"]]
    /\ UNCHANGED <<store, owner, clock, calls>>

\* app.py:140: insert_one returns, or raises and the request ends in a 500
UploadLogInbound(w) ==
    /\ rq[w].kind = "upload_file" /\ rq[w].pc = "log_inbound"
    /\ \/ /\ Insert(w, Doc("user", rq[w].lang_code,
                           <<"Uploaded file:", rq[w].f.filename>>, rq[w].ts))
          /\ rq' = [rq EXCEPT ![w] = [@ EXCEPT !.pc = "explain", !.ts = 0]]
       \/ /\ rq' = [rq EXCEPT ![w] = [@ EXCEPT !.pc = "aborted",
                       !.ts = 0, !.status = 500, !.store_failed = TRUE]]
          /\ UNCHANGED <<store, owner>>
    /\ UNCHANGED <<clock, calls>>

\* Faulty variant: the disclaimer is not appended to the explanation
Explanation_NoDisclaimer(filename) ==
    <<"I found this in your document:", "Simulated OCR of", filename,
      ": Paracetamol 500mg twice daily for 5 days.",
      "Dosage: Paracetamol 500 mg - take one tablet twice a day after food. If fever persists > 48 hours, consult your doctor.">>

\* explanation, app.py:148-154
Explanation(filename) ==
    <<"I found this in your document:", "Simulated OCR of", filename,
      ": Paracetamol 500mg twice daily for 5 days.",
      "Dosage: Paracetamol 500 mg - take one tablet twice a day after food. If fever persists > 48 hours, consult your doctor.",
      DISCLAIMER>>

\* app.py:148-154
UploadExplain(w) ==
    /\ rq[w].kind = "upload_file" /\ rq[w].pc = "explain"
    /\ rq' = [rq EXCEPT ![w] = [@ EXCEPT
                 !.reply_text = Explanation(rq[w].f.filename),
                 !.pc = "translate_to_user"]]
    /\ UNCHANGED <<store, owner, clock, calls>>

\* app.py:156
UploadTranslate(w) ==
    /\ rq[w].kind = "upload_file" /\ rq[w].pc = "translate_to_user"
    /\ IF rq[w].lang_code # "en"
       THEN \E resp \in {Failure} \cup {Success(t) : t \in ForeignOutputs} :
               /\ rq' = [rq EXCEPT ![w] = [@ EXCEPT
                         !.final_reply = translate_text(rq[w].reply_text,
                                             rq[w].lang_code, resp),
                         !.out_failed = ~resp.ok,
                         !.pc = "stamp_outbound"]]
               /\ Called(w, "outbound", rq[w].lang_code, resp)
       ELSE /\ rq' = [rq EXCEPT ![w] = [@ EXCEPT
                         !.final_reply = rq[w].reply_text,
                         !.pc = "stamp_outbound"]]
            /\ UNCHANGED calls
    /\ UNCHANGED <<store, owner, clock>>

\* app.py:158-163: the document is built, reading the clock
UploadStampOutbound(w) ==
    /\ rq[w].kind = "upload_file" /\ rq[w].pc = "stamp_outbound"
    /\ rq' = [rq EXCEPT ![w] = [@ EXCEPT !.ts = clock, !.pc = "log_outbound"]]
    /\ UNCHANGED <<store, owner, clock, calls>>

\* app.py:158-165
UploadLogOutbound(w) ==
    /\ rq[w].kind = "upload_file" /\ rq[w].pc = "log_outbound"
    /\ \/ /\ Insert(w, Doc("bot", rq[w].lang_code, rq[w].final_reply, rq[w].ts))
          /\ rq' = [rq EXCEPT ![w] = [@ EXCEPT !.pc = "done",
                       !.ts = 0, !.status = 200, !.reply = rq[w].final_reply]]
       \/ /\ rq' = [rq EXCEPT ![w] = [@ EXCEPT !.pc = "aborted",
                       !.ts = 0, !.status = 500, !.store_failed = TRUE]]
          /\ UNCHANGED <<store, owner>>
    /\ UNCHANGED <<clock, calls>>

upload_file(w) ==
    \/ ReceiveUpload(w)
    \/ UploadStampInbound(w)
    \/ UploadLogInbound(w)
    \/ UploadExplain(w)
    \/ UploadTranslate(w)
    \/ UploadStampOutbound(w)
    \/ UploadLogOutbound(w)

----------------------------------------------------------------------------
(* The server: requests are served concurrently, one thread each *)

Next ==
    \/ Tick
    \/ \E w \in Workers : send_message(w)
    \/ \E w \in Workers : upload_file(w)

Spec == Init /\ [][Next]_vars

----------------------------------------------------------------------------
(* analyze_symptoms on its own: request 1 has reached ANALYZE with an      *)
(* English message, which needed no translation, and is analysed.          *)

AnalyzeVocab ==
    {"fever", "bukhar", "pain", "dard", "headache", "bleeding", "unconscious",
     "severe", "chest", "difficulty", "breathing", "high", "HIGH", "104",
     "hello"}

\* Request w in the middle of send_message, at ANALYZE (app.py:91)
AtAnalyze(w, orig, en, l) ==
    /\ store = <<Doc("user", l, orig, 1)>>
    /\ owner = <<w>>
    /\ clock = 1
    /\ rq = [v \in Workers |->
               IF v = w
               THEN [Idle EXCEPT !.kind = "send_message", !.pc = "analyze",
                        !.user_msg = orig, !.lang_code = l,
                        !.detected = IF en = orig THEN "en" ELSE "hi",
                        !.user_msg_en = en]
               ELSE Idle]
    /\ calls = IF en = orig THEN {}
               ELSE {[rid |-> w, step |-> "inbound", target |-> "en",
                      ok |-> TRUE]}

InitAnalyze == \E t \in TextsOver(AnalyzeVocab, MaxLen) : AtAnalyze(1, t, t, "en")

NextAnalyze == Analyze(1)

SpecAnalyze == InitAnalyze /\ [][NextAnalyze]_vars

----------------------------------------------------------------------------
(* The replies on their own: request 1 is an upload_file request, or a     *)
(* send_message request that has reached ANALYZE with any original text    *)
(* and any working text the translator may have returned for it.           *)

OrigVocab == {"dard", "bukhar", ":cry:", "pain", "hello"}

ReplyVocab ==
    {"pain", "PAIN", "fever", "garlic", "sos", "headache", "severe", "high",
     "dard", "bukhar", "hello"}

InitReply ==
    \/ Init
    \/ \E orig \in TextsOver(OrigVocab, MaxOrigLen),
          en \in TextsOver(ReplyVocab, MaxLen), l \in LangCodes :
          \* langdetect raises on an empty message: "en", no translation
          /\ orig = <<>> => en = <<>>
          /\ AtAnalyze(1, orig, en, l)

NextReply ==
    \/ Analyze(1)
    \/ Compose(1)
    \/ upload_file(1)

SpecReply == InitReply /\ [][NextReply]_vars

----------------------------------------------------------------------------
(* Properties *)

\* The text ends with the line, begins with the line
EndsWith(text, line) == Len(text) > 0 /\ text[Len(text)] = line

StartsWith(text, line) == Len(text) > 0 /\ text[1] = line

Sends == {w \in Workers : rq[w].kind = "send_message"}

Uploads == {w \in Workers : rq[w].kind = "upload_file"}

\* The positions after the reply was composed, and after it was translated
AfterCompose == {"translate_to_user", "stamp_outbound", "log_outbound", "done"}

AfterTranslateToUser == {"stamp_outbound", "log_outbound", "done"}

AfterTranslateToEn == {"analyze", "compose"} \cup AfterCompose

\* The documents request w inserted
DocsOf(w, sender) ==
    {i \in 1..Len(store) : owner[i] = w /\ store[i].sender = sender}

\* C1: a storage failure is not propagated: a request one of whose appends
\* failed is not ended without its reply.
C1_StorageFailureNotPropagated ==
    \A w \in Workers :
        rq[w].store_failed =>
            /\ rq[w].pc # "aborted"
            /\ rq[w].status # 500

\* C2: the severe-check comes before the moderate-check and the first match
\* wins: severe whenever a severe trigger word is present, moderate only
\* without one and with "high" or "104", mild otherwise.
C2_SevereBeforeModerate ==
    \A w \in Sends :
        rq[w].pc = "compose" =>
            LET txt == Lower(rq[w].user_msg_en)
            IN  rq[w].analysis.severity =
                    IF ContainsAny(txt, SevereWords) THEN "severe"
                    ELSE IF ContainsAny(txt, ModerateWords) THEN "moderate"
                    ELSE "mild"

\* C3, as stated: every stored bot message ends with the disclaimer string.
C3_EveryBotMessageEndsWithDisclaimer ==
    \A i \in 1..Len(store) :
        store[i].sender = "bot" => EndsWith(store[i].message, DISCLAIMER)

\* C3, amended: every stored bot message whose lang_code is "en", or whose
\* translation failed, ends with the disclaimer string; any other stored bot
\* message is the text the translator returned.
C3_UntranslatedBotMessageEndsWithDisclaimer ==
    \A i \in 1..Len(store) :
        store[i].sender = "bot" =>
            IF store[i].lang_code = "en" \/ rq[owner[i]].out_failed
            THEN EndsWith(store[i].message, DISCLAIMER)
            ELSE store[i].message \in ForeignOutputs

C3_Witness ==
    \E i \in 1..Len(store) :
        /\ store[i].sender = "bot"
        /\ store[i].lang_code = "hi"
        /\ rq[owner[i]].out_failed
        /\ EndsWith(store[i].message, DISCLAIMER)

\* C4, as stated: a translation step whose target language is "en" never
\* calls the translator and passes the text through unchanged.
C4_TargetEnNeverCallsTranslator ==
    /\ \A c \in calls : c.target # "en"
    /\ \A w \in Sends :
          rq[w].pc \in AfterTranslateToEn => rq[w].user_msg_en = rq[w].user_msg

\* C4, amended: the inbound step is bypassed (no call, identity) when the
\* detected language is "en", and the outbound step of send_message and of
\* upload_file when lang_code is "en"; the inbound step of a message detected
\* as another language calls the translator with target "en".
C4_BypassWhenSourceOrUserLanguageIsEn ==
    /\ \A c \in calls :
          /\ c.step = "inbound" =>
                c.target = "en" /\ rq[c.rid].detected # "en"
          /\ c.step = "outbound" =>
                c.target = rq[c.rid].lang_code /\ c.target # "en"
    /\ \A w \in Sends :
          /\ rq[w].pc \in AfterTranslateToEn /\ rq[w].detected = "en" =>
                rq[w].user_msg_en = rq[w].user_msg
          /\ rq[w].pc \in AfterTranslateToEn /\ rq[w].detected # "en" =>
                \E c \in calls : c.rid = w /\ c.step = "inbound"
    /\ \A w \in Sends \cup Uploads :
          rq[w].pc \in AfterTranslateToUser /\ rq[w].lang_code = "en" =>
             /\ rq[w].final_reply = rq[w].reply_text
             /\ ~ \E c \in calls : c.rid = w /\ c.step = "outbound"

C4_Witness ==
    \E w \in Sends :
        /\ rq[w].pc = "done"
        /\ rq[w].detected # "en"
        /\ rq[w].lang_code = "en"
        /\ \E c \in calls : c.rid = w /\ c.target = "en"

\* C5: translation is fail-open: a failed translation raises nothing (the
\* request goes on and is ended only by a storage failure), a failed inbound
\* translation leaves the original text as the working text that is
\* analysed, and a failed outbound translation leaves the composed reply,
\* which is what is stored and returned.
C5_TranslationFailOpen ==
    \A w \in Sends :
        /\ rq[w].pc = "aborted" => rq[w].store_failed
        /\ (rq[w].in_failed \/ rq[w].out_failed)
              /\ rq[w].pc \notin {"done", "aborted"} => ENABLED send_message(w)
        /\ rq[w].in_failed =>
              /\ rq[w].user_msg_en = rq[w].user_msg
              /\ rq[w].pc \in {"compose"} \cup AfterCompose =>
                    rq[w].analysis = analyze_symptoms(rq[w].user_msg)
        /\ rq[w].out_failed =>
              /\ rq[w].final_reply = rq[w].reply_text
              /\ rq[w].pc = "done" =>
                    /\ rq[w].reply = rq[w].reply_text
                    /\ \A i \in DocsOf(w, "bot") :
                          store[i].message = rq[w].reply_text

C5_Witness ==
    \E w \in Sends :
        /\ rq[w].pc = "done"
        /\ rq[w].in_failed
        /\ rq[w].out_failed
        /\ rq[w].reply = ComposeReply(rq[w].user_msg, rq[w].user_msg,
                                      analyze_symptoms(rq[w].user_msg))

\* C6: under any interleaving, a request that completes has appended exactly
\* one user document and exactly one bot document, the user document first;
\* every stored document is whole.
C6_OneUserThenOneBotPerRequest ==
    /\ \A i \in 1..Len(store) :
          /\ DOMAIN store[i] = {"sender", "lang_code", "message", "timestamp"}
          /\ store[i].sender \in {"user", "bot"}
    /\ Len(owner) = Len(store)
    /\ \A w \in Workers :
          /\ Cardinality(DocsOf(w, "user")) <= 1
          /\ Cardinality(DocsOf(w, "bot")) <= 1
          /\ \A j \in DocsOf(w, "bot") : \E i \in DocsOf(w, "user") : i < j
          /\ rq[w].pc = "done" /\ rq[w].status = 200 =>
                /\ Cardinality(DocsOf(w, "user")) = 1
                /\ Cardinality(DocsOf(w, "bot")) = 1

C6_Witness ==
    /\ Len(store) = 4
    /\ \A w \in Workers : rq[w].pc = "done" /\ rq[w].status = 200
    /\ owner[1] # owner[2]
    /\ owner[3] # owner[4]

\* The priority chain of C7 over the working text as `view` shows it
Rule(k, user_msg, view, analysis) ==
    CASE k = 1 -> Contains(view, <<"pain">>) \/ Contains(user_msg, <<"dard">>)
      [] k = 2 -> Contains(view, <<"fever">>) \/ Contains(user_msg, <<"bukhar">>)
      [] k = 3 -> Contains(view, <<"garlic">>)
      [] k = 4 -> Contains(view, <<"sos">>) \/ Contains(user_msg, <<":cry:">>)
      [] k = 5 -> analysis.symptoms # <<>>
      [] OTHER -> TRUE

FirstRule(user_msg, view, analysis) ==
    CHOOSE k \in 1..6 :
        /\ Rule(k, user_msg, view, analysis)
        /\ \A j \in 1..(k - 1) : ~Rule(j, user_msg, view, analysis)

BranchLines(k, user_msg_en, analysis) ==
    CASE k = 1 -> PainLines
      [] k = 2 -> FeverLines
      [] k = 3 -> GarlicLines
      [] k = 4 -> SosLines
      [] k = 5 -> SymptomsLine(analysis.symptoms)
                    \o <<IF analysis.severity = "severe"
                         THEN SevereLine ELSE HomeCareLine>>
      [] OTHER -> EchoLines(user_msg_en)

\* C7, as stated: the composed reply is the lines of the lowest-numbered
\* rule that matches, the keywords of rules 1 to 4 being looked for in the
\* translated text as it is, followed by the disclaimer line.
C7_FirstMatchOnTranslatedText ==
    \A w \in Sends :
        rq[w].pc = "translate_to_user" =>
            rq[w].reply_text =
                BranchLines(FirstRule(rq[w].user_msg, rq[w].user_msg_en,
                                      rq[w].analysis),
                            rq[w].user_msg_en, rq[w].analysis)
                    \o <<DISCLAIMER>>

\* C7, amended: the same chain, the keywords of rules 1 to 4 being looked
\* for in the lower-cased translated text (case-insensitively); the native
\* keywords are looked for in the original text as it is.
C7_FirstMatchOnLowerCasedText ==
    \A w \in Sends :
        rq[w].pc = "translate_to_user" =>
            rq[w].reply_text =
                BranchLines(FirstRule(rq[w].user_msg, Lower(rq[w].user_msg_en),
                                      rq[w].analysis),
                            rq[w].user_msg_en, rq[w].analysis)
                    \o <<DISCLAIMER>>

\* Two rules match and the lower-numbered one was taken
C7_Witness ==
    \E w \in Sends :
        /\ rq[w].pc = "translate_to_user"
        /\ Contains(rq[w].user_msg, <<":cry:">>)
        /\ Contains(Lower(rq[w].user_msg_en), <<"garlic">>)
        /\ Contains(Lower(rq[w].user_msg_en), <<"fever">>)
        /\ rq[w].reply_text = FeverLines \o <<DISCLAIMER>>

\* C8: the English reply built before the outbound translation ends with the
\* disclaimer: the composed reply of send_message, the explanation of
\* upload_file, and the reply of an upload without a file.
C8_ReplyEndsWithDisclaimerBeforeTranslation ==
    \A w \in Sends \cup Uploads :
        /\ rq[w].pc \in AfterCompose /\ rq[w].status # 400 =>
              EndsWith(rq[w].reply_text, DISCLAIMER)
        /\ rq[w].status = 400 => EndsWith(rq[w].reply, DISCLAIMER)

C8_Witness ==
    \E w \in Uploads :
        /\ rq[w].pc = "done"
        /\ rq[w].status = 200
        /\ rq[w].lang_code = "hi"
        /\ ~rq[w].out_failed
        /\ EndsWith(rq[w].reply_text, DISCLAIMER)
        /\ ~EndsWith(rq[w].reply, DISCLAIMER)

\* C9: an upload_file request without a file is rejected: a non-success
\* status, a reply that begins "No file received.", no document appended and
\* no call of the translator, whatever the lang_code.
C9_UploadWithoutFileIsRejected ==
    \A w \in Uploads :
        ~rq[w].f.present \/ rq[w].f.filename = "" =>
            /\ rq[w].pc = "done"
            /\ rq[w].status = 400
            /\ StartsWith(rq[w].reply, "No file received.")
            /\ \A i \in 1..Len(store) : owner[i] # w
            /\ \A c \in calls : c.rid # w

C9_Witness ==
    \E w \in Uploads, v \in Sends :
        /\ ~rq[w].f.present
        /\ rq[w].lang_code = "hi"
        /\ rq[w].status = 400
        /\ rq[v].pc = "done"
        /\ Len(store) = 2

\* C10, as stated, in the weaker reading that the strict one implies: every
\* stored message has a non-null timestamp and no message is stored after a
\* message with a later timestamp.
C10_TimestampsOrderedByInsertion ==
    /\ \A i \in 1..Len(store) : store[i].timestamp > 0
    /\ \A i, j \in 1..Len(store) :
          i < j => store[i].timestamp <= store[j].timestamp

\* C10, amended: every stored message has a non-null timestamp, and the
\* timestamps of one request's own messages do not decrease in insertion
\* order (the clock not stepping back); the messages of concurrently served
\* requests may be stored out of timestamp order.
C10_TimestampsOfOneRequestDoNotDecrease ==
    /\ \A i \in 1..Len(store) : store[i].timestamp > 0
    /\ \A i, j \in 1..Len(store) :
          i < j /\ owner[i] = owner[j] =>
              store[i].timestamp <= store[j].timestamp

\* A later insertion carries an earlier timestamp
C10_Witness ==
    \E i, j \in 1..Len(store) :
        /\ i < j
        /\ owner[i] # owner[j]
        /\ store[i].timestamp > store[j].timestamp
        /\ \E k \in 1..Len(store) :
              j < k /\ owner[k] = owner[j]
                    /\ store[j].timestamp < store[k].timestamp

====
